---- MODULE Spec2Model ----
(***************************************************************************)
(* ERP data synchronisation and local query engine of src/index.js (the    *)
(* last server variant in the file, lines 282-573): the paginated upstream *)
(* fetch, the merge into the in-memory collection allERPData and its file  *)
(* DATA_FILE, the refresh runs started at listen time and by the 60 s      *)
(* interval, and the /chatbot query handler reading the collection.        *)
(*                                                                         *)
(* Node runs one callback at a time: every action below is one synchronous *)
(* segment of the code, from one await (or callback entry) to the next.    *)
(* A record of the synchronisation is its identity so_pk and a payload v   *)
(* standing for all its other fields; the normalizer and the query engine  *)
(* work on records with the fields they read.                              *)
(*                                                                         *)
(* Spec      the server: refresh runs, merges, the file, queries           *)
(* SpecMerge the snapshot store under arbitrary mergeNewData calls         *)
(* SpecFetch fetchAllSalesOrders over windows of several pages of 500      *)
(* SpecNorm  summarizeERPData, the file and restarts over raw ERP orders   *)
(* SpecQuery filterOrders and formatResponse over stored collections       *)
(***************************************************************************)
EXTENDS Integers, Sequences, FiniteSets, TLC

\* ---------------------------------------------------------------- constants

\* preloadERPData: const startYear = 2020
startYear == 2020

\* fetchAllSalesOrders: const limit = 500
limit == 500

\* ------------------------------------------------------------------- bounds

\* number of annual windows of a run: endYear = new Date().getFullYear()
NumWindows == 2

\* refresh runs that may be started (the listen run and interval runs)
MaxRuns == 2

\* /chatbot requests that may be served
MaxQueries == 1

\* full pages an upstream window holds in the pagination specification
MaxFullPages == 3

\* length of a candidate sequence of the store specification
MaxCand == 2

\* distinct so_pk values of the store specification
MaxId == 2

endYear == startYear + NumWindows - 1
Years == startYear..endYear
Runs == 1..MaxRuns
Queries == 1..MaxQueries

VARIABLES
  upstream,    \* the ERP's records per annual window, in its paging order
  allERPData,  \* let allERPData: the in-memory collection
  disk,        \* DATA_FILE: [state: "absent" | "ok" | "corrupt", data]
  listening,   \* the app.listen callback has run
  pc,          \* per run: "idle", "await", "hung", "done", "rejected"
  year,        \* per run: preloadERPData's loop variable
  offset,      \* per run: fetchAllSalesOrders' offset
  allData,     \* per run: fetchAllSalesOrders' allData
  reqs,        \* per run: offsets of the page requests of the current window
  runFailed,   \* per run: callERP caught an error in some window of the run
  merged,      \* per run: the windows whose mergeNewData call returned
  lastFetch,   \* per run: what its last fetchAllSalesOrders call returned
  qpc,         \* per query: "idle", "parsing", "answered"
  observed,    \* per query: the orders the handler filtered and aggregated
  published,   \* the collections as they were before and after each merge
  called,      \* mergeNewData has been called
  lastCands,   \* argument of the last mergeNewData call
  repeated,    \* the call before the last one had the same argument
  lastAdded,   \* filteredNew.length of the last call
  prevStore,   \* allERPData before the last call
  lastWrote,   \* the last call reached fs.writeFileSync
  proc,        \* the process: "up", or "crashed" while loading the module
  lastMerge,   \* the last merge of a batch: what it added, how its write ended
  parsed,      \* per query: the descriptor parseQuestionWithGPT returned
  answer       \* per query: the response sent, and whether filterOrders
               \* returned and what

vars == <<upstream, allERPData, disk, listening, pc, year, offset, allData,
          reqs, runFailed, merged, lastFetch, qpc, observed, published,
          called, lastCands, repeated, lastAdded, prevStore, lastWrote,
          proc, lastMerge, parsed, answer>>

runVars == <<pc, year, offset, allData, reqs, runFailed, merged, lastFetch>>
queryVars == <<qpc, observed, parsed, answer>>
callVars == <<called, lastCands, repeated, lastAdded, prevStore, lastWrote>>
storeVars == <<allERPData, disk, published, callVars, lastMerge>>

\* ------------------------------------------------------------------ helpers

Min(a, b) == IF a < b THEN a ELSE b

R(id, v) == [so_pk |-> id, v |-> v]

\* orders.map(o => o.so_pk), as a set
Ids(orders) == {orders[i].so_pk : i \in DOMAIN orders}

Range(s) == {s[i] : i \in DOMAIN s}

IsPrefix(s, t) == Len(s) <= Len(t) /\ SubSeq(t, 1, Len(s)) = s

\* -------------------------------------------------------- JavaScript values

\* a value of a record field: its type, and its number or its characters; a
\* string is the sequence of its characters
V(t, n, s) == [t |-> t, n |-> n, s |-> s]

Undefined == V("undefined", 0, <<>>)
Null == V("null", 0, <<>>)
NaN == V("NaN", 0, <<>>)
Num(n) == V("number", n, <<>>)
Str(s) == V("string", 0, s)

\* o[f]: a property the object does not have reads as undefined
Get(o, f) == IF f \in DOMAIN o THEN o[f] ELSE Undefined

\* ToBoolean(x) is false
Falsy(x) ==
  \/ x.t \in {"undefined", "null", "NaN"}
  \/ x = Num(0)
  \/ x = Str(<<>>)

\* x || d
Or(x, d) == IF Falsy(x) THEN d ELSE x

DigitChars == <<"0", "1", "2", "3", "4", "5", "6", "7", "8", "9">>

IsDigit(c) == \E i \in DOMAIN DigitChars : DigitChars[i] = c

DigitVal(c) == (CHOOSE i \in DOMAIN DigitChars : DigitChars[i] = c) - 1

\* the number a sequence of decimal digits denotes
RECURSIVE DigitsValue(_)
DigitsValue(s) ==
  IF s = <<>> THEN 0
  ELSE 10 * DigitsValue(SubSeq(s, 1, Len(s) - 1)) + DigitVal(s[Len(s)])

\* the decimal digits of a natural number
RECURSIVE DigitsOf(_)
DigitsOf(n) ==
  IF n < 10 THEN <<DigitChars[n + 1]>>
  ELSE Append(DigitsOf(n \div 10), DigitChars[(n % 10) + 1])

\* the longest prefix of s made of digits
RECURSIVE DigitPrefix(_)
DigitPrefix(s) ==
  IF s = <<>> \/ ~IsDigit(Head(s)) THEN <<>>
  ELSE <<Head(s)>> \o DigitPrefix(Tail(s))

\* Number(x), for the values a JSON document holds and strings without
\* sign, point, exponent or blanks: a string that is not a numeral gives NaN
ToNumber(x) ==
  CASE x.t = "number" -> x
    [] x.t = "null" -> Num(0)
    [] x.t = "string" ->
         IF x.s = <<>> THEN Num(0)
         ELSE IF DigitPrefix(x.s) = x.s THEN Num(DigitsValue(x.s)) ELSE NaN
    [] OTHER -> NaN

\* x.toString() of a string or a natural number
toString(x) == IF x.t = "string" THEN x.s ELSE DigitsOf(x.n)

\* s.replace(c, ""): a string pattern replaces its first occurrence only
ReplaceFirst(s, c) ==
  IF \E i \in DOMAIN s : s[i] = c
  THEN LET k == CHOOSE i \in DOMAIN s :
                  s[i] = c /\ \A j \in 1..(i - 1) : s[j] # c
       IN SubSeq(s, 1, k - 1) \o SubSeq(s, k + 1, Len(s))
  ELSE s

\* parseFloat(s), same strings: the numeral s starts with, NaN if there is none
parseFloat(s) ==
  IF DigitPrefix(s) = <<>> THEN NaN ELSE Num(DigitsValue(DigitPrefix(s)))

UpperChars == <<"A", "B", "C", "D", "E", "F", "G", "H", "I", "J", "K", "L", "M",
                "N", "O", "P", "Q", "R", "S", "T", "U", "V", "W", "X", "Y", "Z">>
LowerChars == <<"a", "b", "c", "d", "e", "f", "g", "h", "i", "j", "k", "l", "m",
                "n", "o", "p", "q", "r", "s", "t", "u", "v", "w", "x", "y", "z">>

\* s.toLowerCase()
toLowerCase(s) ==
  [i \in DOMAIN s |->
     IF \E k \in DOMAIN UpperChars : UpperChars[k] = s[i]
     THEN LowerChars[CHOOSE k \in DOMAIN UpperChars : UpperChars[k] = s[i]]
     ELSE s[i]]

\* s.includes(kw)
includes(s, kw) ==
  \E i \in 0..(Len(s) - Len(kw)) : SubSeq(s, i + 1, i + Len(kw)) = kw

\* s.startsWith(p)
startsWith(s, p) == IsPrefix(p, s)

\* the fields whose values are numbers and strings of the model, not values V
PlainFields == {"so_pk", "v"}

\* JSON.stringify(allERPData): a property whose value is undefined is left
\* out, NaN is written as null; the document is held as the value it denotes
JSONstringify(store) ==
  [i \in 1..Len(store) |->
     LET o == store[i]
         kept == {f \in DOMAIN o : f \in PlainFields \/ o[f].t # "undefined"}
     IN [f \in kept |->
           IF f \notin PlainFields /\ o[f].t = "NaN" THEN Null ELSE o[f]]]

\* ----------------------------------------------------------- snapshot store

\* if (fs.existsSync(DATA_FILE)) allERPData = JSON.parse(fs.readFileSync(..))
LoadResult(d) ==
  CASE d.state = "absent" -> <<>>
    [] d.state = "ok" -> d.data

\* JSON.parse raises a SyntaxError on a file that holds no JSON document, at
\* the top level of the module: the process ends
LoadThrows(d) == d.state = "corrupt"

\* faulty variant: the filter compares another field than so_pk
FilteredNewWrongKey(store, newData) ==
  SelectSeq(newData, LAMBDA o : o.v \notin {store[i].v : i \in DOMAIN store})

\* faulty variant: no filter, every candidate is taken as new
FilteredNewAll(store, newData) == newData

\* faulty variant: existingSO is built from the file, not from the collection
FilteredNewOnDisk(store, newData) ==
  SelectSeq(newData, LAMBDA o : o.so_pk \notin Ids(disk.data))

\* newData.filter(o => !existingSO.has(o.so_pk)), existingSO being the ids of
\* the collection as it is when mergeNewData is entered
FilteredNew(store, newData) ==
  SelectSeq(newData, LAMBDA o : o.so_pk \notin Ids(store))

\* faulty variant: allERPData.unshift(...filteredNew)
PushedFront(store, filteredNew) == filteredNew \o store

\* faulty variant: allERPData.push(filteredNew[0])
PushedFirstOnly(store, filteredNew) == Append(store, Head(filteredNew))

\* allERPData.push(...filteredNew)
Pushed(store, filteredNew) == store \o filteredNew

\* faulty variant: the file is written before the push
WrittenBeforePush(d, store, w) ==
  CASE w = "ok" -> [state |-> "ok", data |-> JSONstringify(allERPData)]
    [] w = "failKeep" -> d
    [] w = "failTrunc" -> [state |-> "corrupt", data |-> <<>>]

\* fs.writeFileSync(DATA_FILE, ...): it returns, or it throws having left the
\* file as it was, or it throws after truncating the file
WriteOutcomes == {"ok", "failKeep", "failTrunc"}

Written(d, store, w) ==
  CASE w = "ok" -> [state |-> "ok", data |-> JSONstringify(store)]
    [] w = "failKeep" -> d
    [] w = "failTrunc" -> [state |-> "corrupt", data |-> <<>>]

\* the outcomes of the write that a mergeNewData(newData) call can meet
WritesOf(newData) ==
  IF Len(FilteredNew(allERPData, newData)) > 0 THEN WriteOutcomes ELSE {"ok"}

\* mergeNewData(newData) throws: the write was reached and failed
MergeThrows(newData, w) ==
  Len(FilteredNew(allERPData, newData)) > 0 /\ w # "ok"

\* mergeNewData(newData), the write ending as w
mergeNewData(newData, w) ==
  LET filteredNew == FilteredNew(allERPData, newData)
      wrote == Len(filteredNew) > 0
  IN /\ allERPData' = IF wrote THEN Pushed(allERPData, filteredNew)
                               ELSE allERPData
     /\ disk' = IF wrote THEN Written(disk, allERPData', w) ELSE disk

\* ---------------------------------------------------------- upstream client

\* the ERP's answer to a page request {..., limit, offset} for a window: the
\* records at positions offset+1 .. offset+limit of the window
UpstreamPage(y, off) ==
  IF off >= Len(upstream[y]) THEN <<>>
  ELSE SubSeq(upstream[y], off + 1, Min(off + limit, Len(upstream[y])))

\* faulty variant: allData = soList
ConcatReplace(acc, soList) == soList

\* allData = allData.concat(soList)
Concat(acc, soList) == acc \o soList

\* faulty variant: if (soList.length <= limit) break
ShortPageLe(soList) == Len(soList) <= limit

\* if (soList.length < limit) break
ShortPage(soList) == Len(soList) < limit

\* res.data?.[0] || [] for the {data: []} that callERP returns from its catch
FailedPage == <<>>

\* preloadERPData's loop body up to the first await of fetchAllSalesOrders:
\* allData = [], offset = 0, callERP({...payload, limit, offset})
StartWindow(r, y) ==
  /\ year' = [year EXCEPT ![r] = y]
  /\ offset' = [offset EXCEPT ![r] = 0]
  /\ allData' = [allData EXCEPT ![r] = <<>>]
  /\ reqs' = [reqs EXCEPT ![r] = <<0>>]
  /\ pc' = [pc EXCEPT ![r] = "await"]

\* preloadERPData(): the run enters its loop at startYear
StartRun(r) ==
  /\ pc[r] = "idle"
  /\ StartWindow(r, startYear)
  /\ UNCHANGED <<runFailed, merged, lastFetch>>

\* ------------------------------------------------------- record normalizer

Unknown == <<"U", "n", "k", "n", "o", "w", "n">>

\* the properties summarizeERPData computes
Computed == {"division", "salesRep", "amount", "gpRate", "date"}

\* Number(so.TotalAmount_TransH || 0)
AmountOf(so) == ToNumber(Or(Get(so, "TotalAmount_TransH"), Num(0)))

\* parseFloat((so.gpRate || "0").toString().replace("%", "").replace(",", ""))
GpRateOf(so) ==
  parseFloat(ReplaceFirst(ReplaceFirst(
      toString(Or(Get(so, "gpRate"), Str(<<"0">>))), "%"), ","))

\* {...so, division, salesRep, amount, gpRate, date}: the spread keeps so_pk
\* and every upstream field, a computed property replaces one of its name; in
\* a record of the synchronisation the payload v stands for the computed
\* properties as for the upstream ones
SummarizeOne(so) ==
  IF "v" \in DOMAIN so THEN so
  ELSE [f \in DOMAIN so \cup Computed |->
          CASE f = "division" -> Or(Get(so, "Name_Dept"), Str(Unknown))
            [] f = "salesRep" -> Or(Get(so, "Name_Empl"), Str(Unknown))
            [] f = "amount" -> AmountOf(so)
            [] f = "gpRate" -> GpRateOf(so)
            [] f = "date" -> Get(so, "DateCreated_TransH")
            [] OTHER -> so[f]]

\* erpData.map((so) => ({...}))
summarizeERPData(erpData) ==
  [i \in 1..Len(erpData) |-> SummarizeOne(erpData[i])]

\* -------------------------------------------------------- refresh scheduler

\* fetchAllSalesOrders returns rawData and, in the same turn of the event
\* loop, preloadERPData goes on: summarizeERPData, mergeNewData, year++, and
\* either the next window's first callERP or the end of the run; a throw of
\* mergeNewData rejects preloadERPData's promise
EndWindow(r, rawData, failed) ==
  /\ lastFetch' = [lastFetch EXCEPT ![r] =
       [valid |-> TRUE, year |-> year[r], rawData |-> rawData,
        reqs |-> reqs[r], failed |-> failed]]
  /\ LET summarized == summarizeERPData(rawData)
     IN \E w \in WritesOf(summarized) :
          /\ mergeNewData(summarized, w)
          /\ published' = published \cup
                 {allERPData \o FilteredNew(allERPData, summarized)}
          /\ IF MergeThrows(summarized, w)
             THEN /\ pc' = [pc EXCEPT ![r] = "rejected"]
                  /\ allData' = [allData EXCEPT ![r] = rawData]
                  /\ UNCHANGED <<year, offset, reqs, merged>>
             ELSE /\ merged' = [merged EXCEPT ![r] = Append(merged[r], year[r])]
                  /\ IF year[r] + 1 <= endYear
                     THEN StartWindow(r, year[r] + 1)
                     ELSE /\ pc' = [pc EXCEPT ![r] = "done"]
                          /\ allData' = [allData EXCEPT ![r] = rawData]
                          /\ UNCHANGED <<year, offset, reqs>>

\* callERP returned the page: allData = allData.concat(soList), then break on
\* a short page, else offset += limit and the next callERP
PageOk(r) ==
  /\ pc[r] = "await"
  /\ LET soList == UpstreamPage(year[r], offset[r])
         acc == Concat(allData[r], soList)
     IN IF ShortPage(soList)
        THEN EndWindow(r, acc, FALSE)
        ELSE /\ allData' = [allData EXCEPT ![r] = acc]
             /\ offset' = [offset EXCEPT ![r] = offset[r] + limit]
             /\ reqs' = [reqs EXCEPT ![r] = Append(reqs[r], offset[r] + limit)]
             /\ UNCHANGED <<pc, year, merged, lastFetch>>
             /\ UNCHANGED <<allERPData, disk, published>>
  /\ UNCHANGED <<upstream, proc, listening, runFailed>>
  /\ UNCHANGED <<callVars, lastMerge>>
  /\ UNCHANGED queryVars

\* fetch or response.json() threw: callERP returns {data: []}, soList is [],
\* the loop breaks
PageFail(r) ==
  /\ pc[r] = "await"
  /\ ShortPage(FailedPage)
  /\ EndWindow(r, Concat(allData[r], FailedPage), TRUE)
  /\ runFailed' = [runFailed EXCEPT ![r] = TRUE]
  /\ UNCHANGED <<upstream, proc, listening>>
  /\ UNCHANGED <<callVars, lastMerge>>
  /\ UNCHANGED queryVars

\* no response ever arrives: fetch(ERP_API, {method, headers, body}) sets no
\* timeout, its promise never settles
NoResponse(r) ==
  /\ pc[r] = "await"
  /\ pc' = [pc EXCEPT ![r] = "hung"]
  /\ UNCHANGED <<upstream, proc, listening, year, offset, allData, reqs, runFailed,
                 merged, lastFetch>>
  /\ UNCHANGED storeVars
  /\ UNCHANGED queryVars

\* app.listen(3000, async () => { await preloadERPData(); })
Listen ==
  /\ ~listening
  /\ listening' = TRUE
  /\ StartRun(1)
  /\ UNCHANGED <<upstream, proc>>
  /\ UNCHANGED storeVars
  /\ UNCHANGED queryVars

\* setInterval(async () => { await preloadERPData(); }, 60_000): each firing
\* calls preloadERPData, whatever the earlier runs are doing
IntervalFire ==
  /\ listening
  /\ \E r \in Runs :
       /\ pc[r] = "idle"
       /\ \A s \in Runs : s < r => pc[s] # "idle"
       /\ StartRun(r)
  /\ UNCHANGED <<upstream, proc, listening>>
  /\ UNCHANGED storeVars
  /\ UNCHANGED queryVars

\* ------------------------------------------------------------- query engine

\* app.post("/chatbot"): the request arrives, await parseQuestionWithGPT
QueryStart(q) ==
  /\ listening
  /\ qpc[q] = "idle"
  /\ qpc' = [qpc EXCEPT ![q] = "parsing"]
  /\ UNCHANGED <<upstream, proc, listening, observed, parsed, answer>>
  /\ UNCHANGED runVars
  /\ UNCHANGED storeVars

\* parsed.gpThreshold is null
NoThreshold == [operator |-> "null", value |-> Null]

\* x < y and x <= y: null counts as 0, undefined and NaN compare false
Lt(x, y) ==
  LET a == ToNumber(x)
      b == ToNumber(y)
  IN a.t = "number" /\ b.t = "number" /\ a.n < b.n

Le(x, y) ==
  LET a == ToNumber(x)
      b == ToNumber(y)
  IN a.t = "number" /\ b.t = "number" /\ a.n <= b.n

\* x === y
StrictEq(x, y) == x.t # "NaN" /\ x = y

\* the switch (operator) of the gpThreshold filter
GpTest(o, th) ==
  LET g == Get(o, "gpRate")
  IN IF th.operator = ">" THEN Lt(th.value, g)
     ELSE IF th.operator = "<" THEN Lt(g, th.value)
     ELSE IF th.operator = ">=" THEN Le(th.value, g)
     ELSE IF th.operator = "<=" THEN Le(g, th.value)
     ELSE IF th.operator = "=" THEN StrictEq(g, th.value)
     ELSE TRUE

\* (o.Name_Cust || "").toLowerCase().includes(kw) || the same of
\* ContractDescription_TransH || the same of Memo_TransH
CustomerTest(o, kw) ==
  \E f \in {"Name_Cust", "ContractDescription_TransH", "Memo_TransH"} :
    includes(toLowerCase(Or(Get(o, f), Str(<<>>)).s), kw)

\* filterOrders up to the line of the year filter
BeforeYear(orders, p) ==
  LET byCustomer ==
        IF Falsy(p.customer) THEN orders
        ELSE SelectSeq(orders,
               LAMBDA o : CustomerTest(o, toLowerCase(p.customer.s)))
      byGp ==
        IF p.gpThreshold = NoThreshold THEN byCustomer
        ELSE SelectSeq(byCustomer, LAMBDA o : GpTest(o, p.gpThreshold))
  IN IF Falsy(p.date) THEN byGp
     ELSE SelectSeq(byGp,
            LAMBDA o : StrictEq(Get(o, "DateCreated_TransH"), p.date))

\* o.DateCreated_TransH.startsWith(parsed.year) raises a TypeError for an
\* order, among those the filters before have kept, whose DateCreated_TransH
\* is not a string
filterThrows(orders, p) ==
  /\ ~Falsy(p.year)
  /\ \E o \in Range(BeforeYear(orders, p)) :
       Get(o, "DateCreated_TransH").t # "string"

\* filterOrders(orders, parsed), when it returns
filterOrders(orders, p) ==
  IF Falsy(p.year) THEN BeforeYear(orders, p)
  ELSE SelectSeq(BeforeYear(orders, p),
         LAMBDA o : startsWith(Get(o, "DateCreated_TransH").s, toString(p.year)))

\* x + y of numbers: null counts as 0, undefined and NaN give NaN
Add(x, y) ==
  LET a == ToNumber(x)
      b == ToNumber(y)
  IN IF a.t = "number" /\ b.t = "number" THEN Num(a.n + b.n) ELSE NaN

\* orders.reduce((sum, o) => sum + o.amount, 0)
RECURSIVE SumAmount(_)
SumAmount(orders) ==
  IF orders = <<>> THEN Num(0)
  ELSE Add(SumAmount(SubSeq(orders, 1, Len(orders) - 1)),
           Get(orders[Len(orders)], "amount"))

\* Math.max() of no argument
NegInfinity == V("-Infinity", 0, <<>>)

\* Math.max(...orders.map(o => o.gpRate))
MathMax(orders) ==
  LET xs == {ToNumber(Get(orders[i], "gpRate")) : i \in DOMAIN orders}
  IN IF xs = {} THEN NegInfinity
     ELSE IF \E x \in xs : x.t # "number" THEN NaN
     ELSE CHOOSE x \in xs : \A y \in xs : y.n <= x.n

NA == <<"N", "/", "A">>

\* mapFields(o) for parsed.fields = []
mapFields(o) ==
  [so_number |-> Or(Get(o, "so_upk"), Str(NA)),
   gp_rate |-> IF Get(o, "gpRate").t \in {"null", "undefined"}
               THEN Str(NA) ELSE Get(o, "gpRate")]

\* the property key a value is converted to
KeyOf(x) ==
  IF x.t = "string" THEN x.s
  ELSE IF x.t = "number" THEN DigitsOf(x.n)
  ELSE IF x.t = "null" THEN <<"n", "u", "l", "l">>
  ELSE <<"u", "n", "d", "e", "f", "i", "n", "e", "d">>

\* orders.forEach(o => { map[o[f]] = (map[o[f]] || 0) + o.amount; }): the
\* properties of map in the order of their creation
RECURSIVE GroupedBy(_, _)
GroupedBy(orders, f) ==
  IF orders = <<>> THEN <<>>
  ELSE LET map == GroupedBy(SubSeq(orders, 1, Len(orders) - 1), f)
           o == orders[Len(orders)]
           k == KeyOf(Get(o, f))
       IN IF \E i \in DOMAIN map : map[i].name = k
          THEN [i \in DOMAIN map |->
                  IF map[i].name = k
                  THEN [name |-> k,
                        amt |-> Add(Or(map[i].amt, Num(0)), Get(o, "amount"))]
                  ELSE map[i]]
          ELSE Append(map, [name |-> k, amt |-> Add(Num(0), Get(o, "amount"))])

\* a property key that is an array index: a decimal numeral without leading
\* zero
IsArrayIndex(k) ==
  k # <<>> /\ DigitPrefix(k) = k /\ (Len(k) = 1 \/ k[1] # "0")

\* entries in ascending order of their index keys
RECURSIVE AscendingIndex(_)
AscendingIndex(S) ==
  IF S = {} THEN <<>>
  ELSE LET m == CHOOSE e \in S :
                  \A d \in S : DigitsValue(e.name) <= DigitsValue(d.name)
       IN <<m>> \o AscendingIndex(S \ {m})

\* Object.entries(map): the array-index keys first, in ascending numeric
\* order, then the other keys in the order of their creation
ObjectEntries(map) ==
  AscendingIndex({e \in Range(map) : IsArrayIndex(e.name)})
    \o SelectSeq(map, LAMBDA e : ~IsArrayIndex(e.name))

\* entries.sort((a, b) => b[1] - a[1]) for sums that are numbers: the sort is
\* stable, an entry goes behind the entries whose sum is not less than its own
RECURSIVE SortedDesc(_)
SortedDesc(entries) ==
  IF entries = <<>> THEN <<>>
  ELSE LET before == SortedDesc(SubSeq(entries, 1, Len(entries) - 1))
           e == entries[Len(entries)]
           k == Cardinality({i \in DOMAIN before : before[i].amt.n >= e.amt.n})
       IN SubSeq(before, 1, k) \o <<e>> \o SubSeq(before, k + 1, Len(before))

\* sorted.slice(0, parsed.topN || 1)
TopRows(orders, f, p) ==
  LET sorted == SortedDesc(ObjectEntries(GroupedBy(orders, f)))
      topN == Or(p.topN, Num(1))
  IN SubSeq(sorted, 1, Min(topN.n, Len(sorted)))

\* faulty variant: the test of the empty result is missing
IsEmptyNever(orders) == FALSE

\* !orders.length
IsEmpty(orders) == Len(orders) = 0

\* formatResponse raises: mapFields(orders[0]) of an empty array that the
\* test of the empty result has let through
formatThrows(orders, p) ==
  p.intent = "sample" /\ ~IsEmpty(orders) /\ Len(orders) = 0

\* formatResponse(orders, parsed, question), when it returns: the content of
\* the text it builds
formatResponse(orders, p) ==
  IF p.intent = "general" THEN [kind |-> "general"]
  ELSE IF IsEmpty(orders) THEN [kind |-> "zero"]
  ELSE IF p.intent = "count"
       THEN [kind |-> "count", n |-> Len(orders),
             totalAmount |-> SumAmount(orders), highestGP |-> MathMax(orders)]
  ELSE IF p.intent = "list"
       THEN [kind |-> "list",
             lines |-> [i \in DOMAIN orders |-> mapFields(orders[i])]]
  ELSE IF p.intent = "sample"
       THEN [kind |-> "sample", line |-> mapFields(orders[1])]
  ELSE IF p.intent = "topCustomers"
       THEN [kind |-> "top", rows |-> TopRows(orders, "Name_Cust", p)]
  ELSE IF p.intent = "topDivision"
       THEN [kind |-> "top", rows |-> TopRows(orders, "division", p)]
  ELSE IF p.intent = "topSales"
       THEN [kind |-> "top", rows |-> TopRows(orders, "salesRep", p)]
  ELSE [kind |-> "unknown"]

\* the /chatbot handler from filterOrders on: res.json({type, data}), or
\* res.status(500).json({error: "Chatbot failed"}) from its catch
chatbot(orders, p) ==
  IF filterThrows(orders, p)
  THEN [status |-> 500, returned |-> FALSE, filtered |-> <<>>,
        data |-> [kind |-> "error"]]
  ELSE LET filtered == filterOrders(orders, p)
       IN IF formatThrows(filtered, p)
          THEN [status |-> 500, returned |-> TRUE, filtered |-> filtered,
                data |-> [kind |-> "error"]]
          ELSE [status |-> 200, returned |-> TRUE, filtered |-> filtered,
                data |-> formatResponse(filtered, p)]

\* parseQuestionWithGPT returned the descriptor p: filterOrders(allERPData,
\* parsed) reads the collection, formatResponse aggregates the result before
\* its first await, and the response is sent
Respond(q, p) ==
  /\ qpc[q] = "parsing"
  /\ qpc' = [qpc EXCEPT ![q] = "answered"]
  /\ observed' = [observed EXCEPT ![q] = allERPData]
  /\ parsed' = [parsed EXCEPT ![q] = p]
  /\ answer' = [answer EXCEPT ![q] = chatbot(allERPData, p)]
  /\ UNCHANGED <<upstream, proc, listening>>
  /\ UNCHANGED runVars
  /\ UNCHANGED storeVars

\* the descriptor of a question for the count of all orders
CountAll ==
  [intent |-> "count", customer |-> Null, gpThreshold |-> NoThreshold,
   date |-> Null, year |-> Null, topN |-> Null]

\* a question about the number of orders is answered
QueryAnswer(q) == Respond(q, CountAll)

\* ------------------------------------------------------------ specification

\* the ERP's records: the i-th window holds orders i and i+1, so that every
\* order but the first and the last is returned for two windows, with a
\* different payload in each
WindowedUpstream ==
  [y \in Years |-> <<R(y - startYear + 1, "a"), R(y - startYear + 2, "b")>>]

\* DATA_FILE at process start: missing, or written by an earlier process
InitialDisks ==
  { [state |-> "absent", data |-> <<>>],
    [state |-> "ok",
     data |-> JSONstringify(summarizeERPData(<<R(1, "z")>>))] }

\* no fetchAllSalesOrders call of the run has returned
NoFetch == [valid |-> FALSE, year |-> startYear, rawData |-> <<>>,
            reqs |-> <<>>, failed |-> FALSE]

\* no batch has been merged since the process started
NoMerge == [valid |-> FALSE, added |-> 0, w |-> "none",
            prevDisk |-> [state |-> "absent", data |-> <<>>],
            failed |-> FALSE, any |-> FALSE]

\* no response has been sent
NoAnswer == [status |-> 0, returned |-> FALSE, filtered |-> <<>>,
             data |-> [kind |-> "none"]]

InitRest ==
  /\ listening = FALSE
  /\ pc = [r \in Runs |-> "idle"]
  /\ year = [r \in Runs |-> startYear]
  /\ offset = [r \in Runs |-> 0]
  /\ allData = [r \in Runs |-> <<>>]
  /\ reqs = [r \in Runs |-> <<>>]
  /\ runFailed = [r \in Runs |-> FALSE]
  /\ merged = [r \in Runs |-> <<>>]
  /\ lastFetch = [r \in Runs |-> NoFetch]
  /\ qpc = [q \in Queries |-> "idle"]
  /\ observed = [q \in Queries |-> <<>>]
  /\ published = {allERPData}
  /\ called = FALSE
  /\ lastCands = <<>>
  /\ repeated = FALSE
  /\ lastAdded = 0
  /\ prevStore = <<>>
  /\ lastWrote = FALSE
  /\ proc = "up"
  /\ lastMerge = NoMerge
  /\ parsed = [q \in Queries |-> CountAll]
  /\ answer = [q \in Queries |-> NoAnswer]

Init ==
  /\ upstream = WindowedUpstream
  /\ disk \in InitialDisks
  /\ allERPData = LoadResult(disk)
  /\ InitRest

\* A page request that is never answered (NoResponse) leaves its run where a
\* run still awaiting its page is, so the states of Spec cover it; the action
\* itself is part of SpecFetch.
Next ==
  \/ Listen
  \/ IntervalFire
  \/ \E r \in Runs : PageOk(r)
  \/ \E r \in Runs : PageFail(r)
  \/ \E q \in Queries : QueryStart(q)
  \/ \E q \in Queries : QueryAnswer(q)

Spec == Init /\ [][Next]_vars

\* ------------------------------------------- specification of the store

\* the candidate sequences handed to mergeNewData
CandRecords == {R(id, "a") : id \in 1..MaxId}

RECURSIVE SeqsUpTo(_, _)
SeqsUpTo(S, n) ==
  IF n = 0 THEN {<<>>}
  ELSE LET shorter == SeqsUpTo(S, n - 1)
       IN shorter \cup {Append(c, x) : c \in {t \in shorter : Len(t) = n - 1}, x \in S}

CandSeqs == SeqsUpTo(CandRecords, MaxCand)

\* a caller's mergeNewData(C); a throw is caught by the caller
MergeCall(C) ==
  /\ \E w \in WritesOf(C) : mergeNewData(C, w)
  /\ called' = TRUE
  /\ repeated' = (called /\ lastCands = C)
  /\ lastCands' = C
  /\ lastAdded' = Len(FilteredNew(allERPData, C))
  /\ prevStore' = allERPData
  /\ lastWrote' = (Len(FilteredNew(allERPData, C)) > 0)
  /\ UNCHANGED <<upstream, proc, listening, published, lastMerge>>
  /\ UNCHANGED runVars
  /\ UNCHANGED queryVars

NoUpstream == [y \in Years |-> <<>>]

InitMerge ==
  /\ upstream = NoUpstream
  /\ disk \in InitialDisks
  /\ allERPData = LoadResult(disk)
  /\ InitRest

NextMerge == \E C \in CandSeqs : MergeCall(C)

SpecMerge == InitMerge /\ [][NextMerge]_vars

\* --------------------------------------- specification of the pagination

\* the sizes the last page of a window may have
LastSizes == {0, 1, 137, limit - 1}

Ballast(n) == [i \in 1..n |-> R(i, "a")]

\* a window of k full pages and a last page, the other windows empty
PagedUpstream(k, m) ==
  [y \in Years |-> IF y = startYear THEN Ballast(limit * k + m) ELSE <<>>]

InitFetch ==
  /\ \E k \in 0..MaxFullPages, m \in LastSizes : upstream = PagedUpstream(k, m)
  /\ disk = [state |-> "absent", data |-> <<>>]
  /\ allERPData = LoadResult(disk)
  /\ InitRest

NextFetch ==
  \/ Listen
  \/ \E r \in Runs : PageOk(r)
  \/ \E r \in Runs : PageFail(r)
  \/ \E r \in Runs : NoResponse(r)

SpecFetch == InitFetch /\ [][NextFetch]_vars

\* ---------------------------- specification of the normalizer and the file

Amt1200 == <<"1", "2", "0", "0">>
AmtComma == <<"1", ",", "2", "0", "0">>
Gp55 == <<"5", "5", "%">>
GpCommas == <<"1", ",", "2", ",", "3", "%">>
GpNone == <<"N", "/", "A">>
Printing == <<"P", "r", "i", "n", "t">>

\* raw orders as the ERP returns them: amounts and rates that are numerals,
\* numbers, null, missing, and strings that are no numerals
NormSamples ==
  { [so_pk |-> 1, Name_Dept |-> Str(Printing),
     TotalAmount_TransH |-> Str(Amt1200), gpRate |-> Str(Gp55)],
    [so_pk |-> 2, TotalAmount_TransH |-> Num(300), gpRate |-> Null],
    [so_pk |-> 3, gpRate |-> Str(GpCommas)],
    [so_pk |-> 4, TotalAmount_TransH |-> Str(AmtComma), gpRate |-> Str(GpNone)] }

\* the batches a window's fetch returns: none, one or two of the orders
NormBatches ==
  {<<>>} \cup {<<x>> : x \in NormSamples}
         \cup {<<c[1], c[2]>> :
                 c \in {d \in NormSamples \X NormSamples :
                          d[1].so_pk < d[2].so_pk}}

\* the body of preloadERPData's loop after the fetch of a batch:
\* summarizeERPData(rawData), then mergeNewData(summarized)
Ingest(rawData) ==
  /\ proc = "up"
  /\ LET summarized == summarizeERPData(rawData)
     IN \E w \in WritesOf(summarized) :
          /\ mergeNewData(summarized, w)
          /\ lastMerge' =
               [valid |-> TRUE,
                added |-> Len(allERPData') - Len(allERPData),
                w |-> w,
                prevDisk |-> disk,
                failed |-> lastMerge.failed \/ MergeThrows(summarized, w),
                any |-> lastMerge.any \/ Len(allERPData') > Len(allERPData)]
  /\ published' = published \cup {allERPData'}
  /\ UNCHANGED <<upstream, proc, listening>>
  /\ UNCHANGED callVars
  /\ UNCHANGED runVars
  /\ UNCHANGED queryVars

\* the process is stopped and started again: the module is loaded, allERPData
\* is [] and then what the file holds, unless JSON.parse throws
Restart ==
  /\ proc' = IF LoadThrows(disk) THEN "crashed" ELSE "up"
  /\ allERPData' = IF LoadThrows(disk) THEN <<>> ELSE LoadResult(disk)
  /\ published' = {allERPData'}
  /\ lastMerge' = NoMerge
  /\ listening' = FALSE
  /\ UNCHANGED <<upstream, disk>>
  /\ UNCHANGED callVars
  /\ UNCHANGED runVars
  /\ UNCHANGED queryVars

InitNorm ==
  /\ upstream = NoUpstream
  /\ disk = [state |-> "absent", data |-> <<>>]
  /\ allERPData = LoadResult(disk)
  /\ InitRest

NextNorm ==
  \/ \E rawData \in NormBatches : Ingest(rawData)
  \/ Restart

SpecNorm == InitNorm /\ [][NextNorm]_vars

\* --------------------------------------- specification of the query engine

\* orders a stored collection may hold
MaxOrders == 3

Acme == <<"A", "c", "m", "e">>
AcmeSign == <<"A", "C", "M", "E", " ", "s", "i", "g", "n">>
Beta == <<"B", "e", "t", "a">>
Seven == <<"7">>
Ana == <<"A", "n", "a">>
Gp60 == <<"6", "0", "%">>
Jan1 == <<"2", "0", "2", "4", "-", "0", "1", "-", "0", "1">>
Jun1 == <<"2", "0", "2", "4", "-", "0", "6", "-", "0", "1">>
Dec31 == <<"2", "0", "2", "3", "-", "1", "2", "-", "3", "1">>
Y2024 == <<"2", "0", "2", "4">>

\* raw orders as the ERP returns them, with numeric amounts: customers in
\* mixed case, a customer named by a numeral, a rate that is no numeral, an
\* order without DateCreated_TransH
QuerySamples ==
  { [so_pk |-> 1, Name_Cust |-> Str(Acme), Name_Dept |-> Str(Printing),
     Name_Empl |-> Str(Ana), TotalAmount_TransH |-> Num(300),
     gpRate |-> Str(Gp60), DateCreated_TransH |-> Str(Jan1)],
    [so_pk |-> 2, Name_Cust |-> Str(Beta),
     ContractDescription_TransH |-> Str(AcmeSign),
     Name_Empl |-> Str(Ana), TotalAmount_TransH |-> Num(300),
     gpRate |-> Num(40), DateCreated_TransH |-> Str(Jun1)],
    [so_pk |-> 3, Name_Cust |-> Str(Seven), Name_Dept |-> Str(Printing),
     TotalAmount_TransH |-> Num(300), gpRate |-> Str(GpNone),
     DateCreated_TransH |-> Str(Dec31)],
    [so_pk |-> 4, Name_Cust |-> Str(Beta), TotalAmount_TransH |-> Num(500),
     gpRate |-> Num(70)] }

\* the sequences of orders with distinct so_pk that merges have stored
QueryRaws ==
  {raw \in SeqsUpTo(QuerySamples, MaxOrders) :
     \A i, j \in DOMAIN raw : raw[i].so_pk = raw[j].so_pk => i = j}

Intents == {"count", "list", "sample", "topCustomers", "topDivision",
            "topSales", "general", "forecast"}

Thresholds ==
  {NoThreshold} \cup
  { [operator |-> ">", value |-> Num(50)], [operator |-> "<", value |-> Num(50)],
    [operator |-> ">=", value |-> Num(60)], [operator |-> "<=", value |-> Num(60)],
    [operator |-> "=", value |-> Num(60)] }

\* the descriptors parseQuestionWithGPT may return
Descriptors ==
  [intent : Intents, customer : {Null, Str(Acme)}, gpThreshold : Thresholds,
   date : {Null, Str(Jan1)}, year : {Null, Str(Y2024)},
   topN : {Null, Num(2)}]

\* the collection is as merges have left it in memory, or as a restart has
\* loaded it from the file they wrote
InitQuery ==
  /\ upstream = NoUpstream
  /\ \E raw \in QueryRaws :
       LET mem == summarizeERPData(raw)
           doc == JSONstringify(mem)
       IN /\ disk = IF raw = <<>> THEN [state |-> "absent", data |-> <<>>]
                    ELSE [state |-> "ok", data |-> doc]
          /\ allERPData \in {mem, doc}
  /\ InitRest

\* one /chatbot request, with any descriptor
NextQuery ==
  \/ Listen
  \/ QueryStart(1)
  \/ \E p \in Descriptors : Respond(1, p)

SpecQuery == InitQuery /\ [][NextQuery]_vars

\* ------------------------------------------------------------------ claims

UpstreamIds == UNION {Ids(upstream[y]) : y \in Years}

\* the windows of a run, in the order of preloadERPData's loop
YearSeq == [i \in 1..NumWindows |-> startYear + i - 1]

\* C1: no two records of the in-memory collection have the same so_pk,
\* whatever candidate sequences mergeNewData was called with.
C1_IdentityUniqueness ==
  \A i, j \in DOMAIN allERPData :
    allERPData[i].so_pk = allERPData[j].so_pk => i = j

\* C2: once a run has completed in which no page request failed, every
\* record id the ERP holds for any window is in the collection; this holds
\* of a later run too, which so adds what a failed page of an earlier run
\* missed.
C2_NoDataLoss ==
  \A r \in Runs :
    pc[r] = "done" /\ ~runFailed[r] => UpstreamIds \subseteq Ids(allERPData)

\* a run with a failed page has completed, a query saw the collection lack an
\* upstream record, and a later run without failures has completed
C2_Witness ==
  /\ pc[1] = "done" /\ runFailed[1]
  /\ pc[2] = "done" /\ ~runFailed[2]
  /\ \E q \in Queries :
       /\ qpc[q] = "answered"
       /\ ~(UpstreamIds \subseteq Ids(observed[q]))
  /\ UpstreamIds \subseteq Ids(allERPData)

\* C3: a mergeNewData call with the argument of the call before it adds no
\* record, writes nothing and leaves the collection as that call left it.
C3_IdempotentMerge ==
  repeated => /\ lastAdded = 0
              /\ ~lastWrote
              /\ allERPData = prevStore
              /\ Ids(lastCands) \subseteq Ids(allERPData)

\* the same full-length candidate sequence was merged twice in a row
C3_Witness ==
  /\ repeated
  /\ Len(lastCands) = MaxCand
  /\ Len(allERPData) >= MaxCand
  /\ lastAdded = 0

\* C4: every step of a run or of a query leaves the collection as it was or
\* appends to it: the collection before is a prefix of the collection after.
C4_AppendOnly == [][IsPrefix(allERPData, allERPData')]_vars

\* order 2 is stored with the payload of one window, and a run has merged the
\* other window, whose candidate for order 2 has another payload
C4_Witness ==
  /\ SummarizeOne(R(2, "b")) \in Range(allERPData)
  /\ SummarizeOne(R(2, "a")) \notin Range(allERPData)
  /\ \E r \in Runs :
       /\ lastFetch[r].valid
       /\ R(2, "a") \in Range(lastFetch[r].rawData)
       /\ lastFetch[r].year \in Range(merged[r])

\* C5: the orders a query filtered and aggregated are the whole collection as
\* it was at process start or as some merge left it.
C5_AtomicForReaders ==
  \A q \in Queries : qpc[q] = "answered" => observed[q] \in published

\* a query was answered between two merges that added records
C5_Witness ==
  \E q \in Queries :
    /\ qpc[q] = "answered"
    /\ Len(observed[q]) > 0
    /\ Len(observed[q]) < Len(allERPData)
    /\ Cardinality(published) > 2

\* C6: at most one preloadERPData run is executing at any time.
C6_SingleFlight ==
  Cardinality({r \in Runs : pc[r] \in {"await", "hung"}}) <= 1

\* C7: a fetchAllSalesOrders call none of whose page requests failed, for a
\* window of k full pages and a short last page, issued the k+1 requests of
\* offsets 0, limit, .., limit*k and returned all the window's records in
\* order.
C7_Pagination ==
  \A r \in Runs :
    lastFetch[r].valid /\ ~lastFetch[r].failed =>
      LET f == lastFetch[r]
          k == Len(upstream[f.year]) \div limit
      IN /\ f.reqs = [i \in 1..(k + 1) |-> limit * (i - 1)]
         /\ f.rawData = upstream[f.year]

\* pages of sizes 500, 500, 500, 137: 4 requests, 1637 records
C7_Witness ==
  /\ lastFetch[1].valid /\ ~lastFetch[1].failed
  /\ lastFetch[1].year = startYear
  /\ Len(lastFetch[1].reqs) = 4
  /\ Len(lastFetch[1].rawData) = 1637

\* C8: a fetchAllSalesOrders call whose n-th page request failed returned
\* (it did not throw), issued no request after the n-th and returned exactly
\* the records of the n-1 pages before it.
C8_SoftFail ==
  \A r \in Runs :
    lastFetch[r].valid /\ lastFetch[r].failed =>
      LET f == lastFetch[r]
          n == Len(f.reqs)
      IN /\ f.reqs = [i \in 1..n |-> limit * (i - 1)]
         /\ limit * (n - 1) <= Len(upstream[f.year])
         /\ f.rawData = SubSeq(upstream[f.year], 1, limit * (n - 1))

\* the third page request failed: the two pages before it were returned
C8_Witness ==
  /\ lastFetch[1].valid /\ lastFetch[1].failed
  /\ Len(lastFetch[1].reqs) = 3
  /\ Len(lastFetch[1].rawData) = 2 * limit

\* C9: a run that has stopped has fetched and merged every window from
\* startYear to the current year, in ascending order.
C9_RunCompletesAllWindows ==
  \A r \in Runs : pc[r] \in {"done", "rejected"} => merged[r] = YearSeq

\* C10: every pending page request can still end, by a page or by a failure
\* (a timeout), so that no run waits for ever.
C10_NoIndefiniteBlocking ==
  \A r \in Runs :
    pc[r] \in {"await", "hung"} => ENABLED (PageOk(r) \/ PageFail(r))

\* the same values are read from every property of a and of b
SameRecord(a, b) ==
  \A f \in DOMAIN a \cup DOMAIN b :
    IF f \in DOMAIN a \cap DOMAIN b THEN a[f] = b[f]
    ELSE Get(a, f) = Undefined /\ Get(b, f) = Undefined

SameCollection(s, t) ==
  Len(s) = Len(t) /\ \A i \in DOMAIN s : SameRecord(s[i], t[i])

\* C11: a merge that added no record left the file as it was; a merge that
\* added records and whose write returned left in the file the document of
\* the whole collection after the push; and as long as no write has failed,
\* once a record has been added the file holds the document of the
\* collection.
C11_PersistWhenAdded ==
  /\ lastMerge.valid /\ lastMerge.added = 0 => disk = lastMerge.prevDisk
  /\ lastMerge.valid /\ lastMerge.added > 0 /\ lastMerge.w = "ok" =>
       disk = [state |-> "ok", data |-> JSONstringify(allERPData)]
  /\ lastMerge.any /\ ~lastMerge.failed =>
       disk = [state |-> "ok", data |-> JSONstringify(allERPData)]

\* several merges added records, no write failed, and the last merge added
\* nothing
C11_Witness ==
  /\ lastMerge.valid /\ lastMerge.added = 0
  /\ lastMerge.any /\ ~lastMerge.failed
  /\ Len(allERPData) >= 3
  /\ disk.state = "ok" /\ Len(disk.data) = Len(allERPData)

\* C12: no run is rejected, and every window a run has fetched has been
\* merged by the run (mergeNewData returned) with all its records in the
\* collection, whatever the outcome of the write.
C12_WriteFailureNotFatal ==
  \A r \in Runs :
    /\ pc[r] # "rejected"
    /\ lastFetch[r].valid =>
         /\ lastFetch[r].year \in Range(merged[r])
         /\ Ids(lastFetch[r].rawData) \subseteq Ids(allERPData)

\* C13: the process is up after the module was loaded, and with a file that
\* is missing or holds no JSON document the collection loaded is empty.
C13_LoadNeverFatal ==
  /\ proc = "up"
  /\ ~lastMerge.valid /\ disk.state \in {"absent", "corrupt"} =>
       allERPData = <<>>

\* C14: the file a merge has just written, loaded, gives the collection that
\* was written: the same records in the same order, every property with the
\* same value.
C14_RoundTrip ==
  lastMerge.valid /\ lastMerge.added > 0 /\ lastMerge.w = "ok" =>
    SameCollection(LoadResult(disk), allERPData)

\* C18: amount and gpRate of every stored record are numbers.
C18_ZeroFallback ==
  \A i \in DOMAIN allERPData :
    /\ Get(allERPData[i], "amount").t = "number"
    /\ Get(allERPData[i], "gpRate").t = "number"

AggregationIntents == {"count", "list", "sample", "topCustomers",
                       "topDivision", "topSales"}

\* an order satisfies every filter the descriptor holds
Satisfies(o, p) ==
  /\ Falsy(p.customer) \/
       \E f \in {"Name_Cust", "ContractDescription_TransH", "Memo_TransH"} :
         /\ Get(o, f).t = "string"
         /\ includes(toLowerCase(Get(o, f).s), toLowerCase(p.customer.s))
  /\ p.gpThreshold = NoThreshold \/ GpTest(o, p.gpThreshold)
  /\ Falsy(p.date) \/ Get(o, "DateCreated_TransH") = p.date
  /\ Falsy(p.year) \/
       /\ Get(o, "DateCreated_TransH").t = "string"
       /\ IsPrefix(p.year.s, Get(o, "DateCreated_TransH").s)

\* C15: the orders a request's filter gave are the orders of the collection
\* that satisfy every filter its descriptor holds, in the order of the
\* collection.
C15_FilterComposition ==
  \A q \in Queries :
    qpc[q] = "answered" =>
      /\ answer[q].returned
      /\ answer[q].filtered =
           SelectSeq(observed[q], LAMBDA o : Satisfies(o, parsed[q]))

\* the property the groups of a top-N intent are named by
GroupField(intent) ==
  IF intent = "topCustomers" THEN "Name_Cust"
  ELSE IF intent = "topDivision" THEN "division" ELSE "salesRep"

\* C16: the rows of a top-N answer are the first min(topN, number of groups)
\* groups, topN being 1 when the descriptor has none, of the groups with their
\* summed amounts in descending order of the sums, groups of equal sums in
\* the order of their first orders.
C16_TopN ==
  \A q \in Queries :
    /\ qpc[q] = "answered"
    /\ parsed[q].intent \in {"topCustomers", "topDivision", "topSales"}
    /\ answer[q].returned /\ answer[q].filtered # <<>>
    => LET groups == SortedDesc(GroupedBy(answer[q].filtered,
                                          GroupField(parsed[q].intent)))
           n == IF parsed[q].topN = Null THEN 1 ELSE parsed[q].topN.n
       IN /\ answer[q].status = 200
          /\ answer[q].data.kind = "top"
          /\ answer[q].data.rows = SubSeq(groups, 1, Min(n, Len(groups)))

\* C17: when filterOrders returned no order, the answer to an aggregation
\* intent is the zero-match text and nothing else: no exception, no count,
\* sum, maximum, line or row.
C17_EmptyResult ==
  \A q \in Queries :
    /\ qpc[q] = "answered"
    /\ parsed[q].intent \in AggregationIntents
    /\ answer[q].returned /\ answer[q].filtered = <<>>
    => /\ answer[q].status = 200
       /\ answer[q].data.kind = "zero"
       /\ DOMAIN answer[q].data = {"kind"}

\* a count over a collection of orders none of which passes the filters
C17_Witness ==
  \E q \in Queries :
    /\ qpc[q] = "answered"
    /\ parsed[q].intent = "count"
    /\ Len(observed[q]) >= 2
    /\ answer[q].returned /\ answer[q].filtered = <<>>
    /\ answer[q].data.kind = "zero"

\* C19: a request whose descriptor has another intent than general is
\* answered with a result or the zero-match text, not with the error
\* response.
C19_QueryNeverFails ==
  \A q \in Queries :
    qpc[q] = "answered" /\ parsed[q].intent # "general" =>
      /\ answer[q].status = 200
      /\ answer[q].data.kind # "error"

\* the number of stored records with the id
Stored(id) == Cardinality({i \in DOMAIN allERPData : allERPData[i].so_pk = id})

\* C20: with runs overlapping in any way, no id is stored twice, and every
\* id of a batch that a run has fetched and handed to mergeNewData is stored
\* once, however many runs fetched it.
C20_OverlappingRuns ==
  /\ \A id \in Ids(allERPData) : Stored(id) = 1
  /\ \A r \in Runs :
       lastFetch[r].valid =>
         \A id \in Ids(lastFetch[r].rawData) : Stored(id) = 1

\* two runs are executing at once, each has fetched and merged a batch, and
\* the two batches share an id
C20_Witness ==
  /\ pc[1] = "await" /\ pc[2] = "await"
  /\ lastFetch[1].valid /\ lastFetch[2].valid
  /\ lastFetch[1].year \in Range(merged[1])
  /\ lastFetch[2].year \in Range(merged[2])
  /\ Ids(lastFetch[1].rawData) \cap Ids(lastFetch[2].rawData) # {}

====
